---- MODULE Spec2Model ----
(***************************************************************************)
(* Model of the LoStik radio link of lora-mesh-rs                          *)
(* (src/hardware/lostik.rs): the arbitration loop radioloop, the radio     *)
(* command helpers rxstart / rxstop / tx / onrx, LoStik::init, the reader  *)
(* thread serialloop and the leaky-bucket limiter the loop consults.       *)
(*                                                                         *)
(* The driver thread takes one step per serial write, per recv() on the    *)
(* line channel, per limiter check and per poll of a channel.  Between two *)
(* of its steps the other parties run: producers enqueue frames, time      *)
(* refills the bucket, the radio answers the commands it was sent or       *)
(* reports what it heard, and the reader thread may die.  A recv() on an   *)
(* empty channel is a step that cannot be taken while the reader thread    *)
(* lives, and returns Err once it is dead.                                 *)
(***************************************************************************)
EXTENDS Integers, Sequences, FiniteSets, TLC

VARIABLES
    txq,        \* outbound queue (txsender -> txreader): frames, oldest first
    nextid,     \* number of frames enqueued so far; frame k is the k-th enqueued
    tokens,     \* tokens left in the limiter's bucket
    refills,    \* tokens the passage of time has put back so far
    isrx,       \* radioloop's local flag: TRUE = Receiving
    extratx,    \* radioloop's deferred frame, 0 = None
    next,       \* radioloop's local `next` (line 88), 0 = Err(empty)
    sent,       \* the branch of line 98 was taken in this iteration
    pc,         \* the driver thread's position in radioloop, or "call"
    site,       \* inside a command: the line the command was called from
    at,         \* inside a command: the write or recv the thread is about to make
    txlog,      \* frames passed to LoStik::tx, in call order
    lines,      \* inbound line channel (readerlinesrx), oldest first
    rxout,      \* packets sent on rxsender, in order
    emitted,    \* number of lines the radio has sent of its own accord
    radiorx,    \* the radio itself is in receive mode
    owed,       \* commands the radio has been sent and not fully answered
    reader,     \* the reader thread is alive (the line channel is connected)
    ops,        \* the command that returned last: <<[op, res, isrx]>>
    cin,        \* harness: the call being made
    cout        \* harness: what the call has read and written so far

vars == <<txq, nextid, tokens, refills, isrx, extratx, next, sent, pc, site, at,
          txlog, lines, rxout, emitted, radiorx, owed, reader, ops, cin, cout>>

(* the producers' side and the limiter *)
supply == <<txq, nextid, tokens, refills>>

(* radioloop's locals *)
locals == <<isrx, extratx, next, sent>>

(* where the driver thread is *)
position == <<pc, site, at>>

(* the radio and the serial link *)
link == <<lines, emitted, radiorx, owed, reader>>

loopvars == <<supply, locals, position, txlog, link, rxout, ops>>

-----------------------------------------------------------------------------
(* Bounds of the model *)

MaxFrames == 3

MaxRefills == 2

MaxRx == 2

MaxLines == 2

MaxOwed == 1

MaxChan == 2

(* nonzero!(3u32): the bucket's capacity *)
Capacity == 3


-----------------------------------------------------------------------------
(* Lines of the radio's text protocol.  A line is its leading token and    *)
(* the characters that follow it; only "radio_rx " lines carry any.        *)

Line(k) == [kind |-> k, rest |-> <<>>]

OK == Line("ok")

RadioErr == Line("radio_err")

Busy == Line("busy")

TxOk == Line("radio_tx_ok")

RxPrefix == "radio_rx "

(* Bodies a notification is drawn from: no bytes, one byte, two bytes, an  *)
(* odd number of digits, and a character that is no hex digit.             *)
Bodies ==
    {<<>>, <<"0", "A">>, <<"A", "0", "0", "1">>, <<"A">>, <<"0", "G">>}

(* "radio_rx  <hex>": the prefix, one further separator, then the body *)
Notifications == {[kind |-> RxPrefix, rest |-> <<" ">> \o b] : b \in Bodies}

(* a line that is the 9-byte prefix and nothing more *)
Truncated == [kind |-> RxPrefix, rest |-> <<>>]

(* msg.starts_with("radio_rx ") *)
IsNotification(msg) == msg.kind = RxPrefix

-----------------------------------------------------------------------------
(* hex::decode *)

IsHexChar(c) ==
    c \in {"0", "1", "2", "3", "4", "5", "6", "7", "8", "9",
           "a", "b", "c", "d", "e", "f", "A", "B", "C", "D", "E", "F"}

HexVal(c) ==
    CASE c = "0" -> 0 [] c = "1" -> 1 [] c = "2" -> 2 [] c = "3" -> 3
      [] c = "4" -> 4 [] c = "5" -> 5 [] c = "6" -> 6 [] c = "7" -> 7
      [] c = "8" -> 8 [] c = "9" -> 9
      [] c \in {"a", "A"} -> 10 [] c \in {"b", "B"} -> 11
      [] c \in {"c", "C"} -> 12 [] c \in {"d", "D"} -> 13
      [] c \in {"e", "E"} -> 14 [] c \in {"f", "F"} -> 15

HexDecode(s) ==
    IF Len(s) % 2 # 0 \/ \E i \in 1..Len(s) : ~IsHexChar(s[i])
    THEN [ok |-> FALSE, bytes |-> <<>>]
    ELSE [ok |-> TRUE,
          bytes |-> [i \in 1..(Len(s) \div 2) |->
                        16 * HexVal(s[2 * i - 1]) + HexVal(s[2 * i])]]

-----------------------------------------------------------------------------
(* LoStik::onrx.  msg.as_bytes()[10..] drops the 9-byte prefix and one     *)
(* further byte; slicing a line of fewer than 10 bytes panics.             *)
OnRx(msg) ==
    IF IsNotification(msg)
    THEN IF Len(msg.rest) < 1
         THEN [res |-> "panic", out |-> <<>>]
         ELSE LET d == HexDecode(SubSeq(msg.rest, 2, Len(msg.rest)))
              IN IF d.ok THEN [res |-> "ok", out |-> <<d.bytes>>]
                 ELSE [res |-> "err", out |-> <<>>]
    ELSE [res |-> "ok", out |-> <<>>]

-----------------------------------------------------------------------------
(* The command helpers, one step per writeln and per recv().               *)

(* the acknowledgement left unchecked, as rxstop leaves it *)
assert_nothing(resp, expected) == TRUE

(* assert_response(resp, "ok") *)
assert_response(resp, expected) == resp = expected

(* what recv() gives on an empty channel whose sender is gone: Err(RecvError) *)
Closed == Line("RecvError")

(* the command a line of radioloop calls; a harness names the command itself *)
Fn(s) ==
    CASE s \in {"l75", "l93", "l116", "l126", "l133", "l155", "rxstart"} -> "rxstart"
      [] s \in {"l101", "l143", "rxstop"} -> "rxstop"
      [] s \in {"l105", "l112", "l146", "tx"} -> "tx"
      [] s = "led" -> "led"
      [] OTHER -> "none"

(* where a command begins: tx and the indicator toggles with a GPIO write, *)
(* rxstart and rxstop with their radio command                             *)
First(fn) == CASE fn = "tx" -> "onw" [] fn = "led" -> "lw" [] OTHER -> "w"

(* positions before a writeln *)
WriteLabels == {"w", "lw", "onw", "offw"}

(* positions before a recv(): r1 is the recv that follows the radio        *)
(* command, r2 the one that follows a radio_err (rxstart, tx) or a packet  *)
(* report (rxstop), r3 tx's recv of the post-transmit line                 *)
RecvLabels == {"r1", "r2", "r3", "lr", "onr", "offr"}

(* the text a writeln sends *)
Cmd(fn, l) ==
    CASE l = "onw" -> "sys set pindig GPIO10 1"
      [] l = "offw" -> "sys set pindig GPIO10 0"
      [] l = "lw" -> IF fn = "rxstop" THEN "sys set pindig GPIO11 0"
                     ELSE "sys set pindig GPIO11 1"
      [] l = "w" -> CASE fn = "rxstart" -> "radio rx 0"
                      [] fn = "rxstop" -> "radio rxstop"
                      [] fn = "tx" -> "radio tx"

(* how a step of a command ends: at its next write or recv, by returning,  *)
(* or in a panic; out is what the step sent on rxsender                    *)
Goto(l) == [k |-> "at", v |-> l, out |-> <<>>]

Return(r) == [k |-> "ret", v |-> r, out |-> <<>>]

Panic == [k |-> "panic", v |-> "", out |-> <<>>]

(* after a writeln: the radio commands return the error with `?`, the      *)
(* indicator toggles drop the Result and go on to their recv()             *)
AfterWrite(l, ok) ==
    CASE l = "w" -> IF ok THEN Goto("r1") ELSE Return("err")
      [] l = "lw" -> Goto("lr")
      [] l = "onw" -> Goto("onr")
      [] l = "offw" -> Goto("offr")

(* assert_response(response, "ok")?, then what follows *)
Acked(resp, l) == IF assert_response(resp, OK) THEN Goto(l) ELSE Return("err")

(* LoStik::rxstart after the recv at l returned got; blueledon's recv is   *)
(* the only one not unwrapped                                              *)
RxStart(l, got) ==
    CASE l = "r1" -> IF got = Closed THEN Panic
                     ELSE IF got = RadioErr THEN Goto("r2")
                     ELSE Acked(got, "lw")
      [] l = "r2" -> IF got = Closed THEN Panic ELSE Acked(got, "lw")
      [] l = "lr" -> Return("ok")

(* LoStik::rxstop after the recv at l returned got *)
RxStop(l, got) ==
    CASE l = "r1" -> IF got = Closed THEN Panic
                     ELSE IF IsNotification(got)
                     THEN LET o == OnRx(got)
                          IN  CASE o.res = "ok" -> [Goto("r2") EXCEPT !.out = o.out]
                                [] o.res = "err" -> Return("err")
                                [] o.res = "panic" -> Panic
                     ELSE Goto("lw")
      [] l = "r2" -> IF got = Closed THEN Panic ELSE Goto("lw")
      [] l = "lr" -> Return("ok")

(* LoStik::tx after the recv at l returned got *)
Tx(l, got) ==
    CASE l = "onr" -> Goto("w")
      [] l = "r1" -> IF got = Closed THEN Panic
                     ELSE IF got = RadioErr THEN Goto("r2")
                     ELSE Acked(got, "r3")
      [] l = "r2" -> IF got = Closed THEN Panic ELSE Acked(got, "r3")
      [] l = "r3" -> IF got = Closed THEN Panic ELSE Goto("offw")
      [] l = "offr" -> Return("ok")

(* blueledon after its recv *)
Led(l, got) == Return("ok")

AfterRecv(fn, l, got) ==
    CASE fn = "rxstart" -> RxStart(l, got)
      [] fn = "rxstop" -> RxStop(l, got)
      [] fn = "tx" -> Tx(l, got)
      [] fn = "led" -> Led(l, got)

-----------------------------------------------------------------------------
(* The radio.  It answers the commands it was sent in order, one line at a *)
(* time; stage 0 is a command not yet answered, stage 1 one whose answer   *)
(* was preceded by a radio_err, stage 2 a radio tx that was acknowledged   *)
(* and whose transmission is still to be reported.                         *)

Sent(cmd) == [cmd |-> cmd, stage |-> 0]

Says(line, stage) == [line |-> line, stage |-> stage]

InvalidParam == Line("invalid_param")

(* a reply that is neither ok nor the bad-parameter token *)
Version == Line("RN2903 1.0.5")

(* the next line the radio may send for a command, and the stage it is in  *)
(* afterwards (-1: the command is answered)                                *)
Radio(o) ==
    CASE o.cmd = "radio rx 0" /\ o.stage = 0 ->
            {Says(OK, -1), Says(Busy, -1), Says(RadioErr, 1)}
      [] o.cmd = "radio rx 0" /\ o.stage = 1 -> {Says(OK, -1)}
      [] o.cmd = "radio rxstop" -> {Says(OK, -1), Says(RadioErr, -1)}
      [] o.cmd = "radio tx" /\ o.stage = 0 ->
            {Says(OK, 2), Says(Busy, -1), Says(RadioErr, 1)}
      [] o.cmd = "radio tx" /\ o.stage = 1 -> {Says(OK, 2)}
      [] o.cmd = "radio tx" /\ o.stage = 2 -> {Says(TxOk, -1)}
      [] o.cmd \in {"sys set pindig GPIO10 1", "sys set pindig GPIO10 0",
                    "sys set pindig GPIO11 1", "sys set pindig GPIO11 0"} ->
            {Says(OK, -1)}
      [] o.cmd = "INVALIDCOMMAND" -> {Says(InvalidParam, -1), Says(OK, -1)}
      [] OTHER -> {Says(OK, -1), Says(InvalidParam, -1), Says(Version, -1)}

(* the radio's mode once it has sent line for cmd: an acknowledged rx 0    *)
(* starts the reception, rxstop and an acknowledged tx end it              *)
Mode(cmd, line) ==
    CASE cmd = "radio rx 0" /\ line = OK -> TRUE
      [] cmd = "radio rxstop" -> FALSE
      [] cmd = "radio tx" /\ line = OK -> FALSE
      [] OTHER -> radiorx

-----------------------------------------------------------------------------
(* radioloop *)

Op(name, res, flag) == [op |-> name, res |-> res, isrx |-> flag]

(* the thread calls the command of line s *)
Enter(s) ==
    /\ pc' = "call"
    /\ site' = s
    /\ at' = First(Fn(s))

(* the thread is at p, outside any command *)
Goes(p) ==
    /\ pc' = p
    /\ site' = ""
    /\ at' = ""

(* the receiver stopped without the flag being lowered *)
FlagLeftUp(flag) == flag

(* if isrx { radio.rxstop(); isrx = false }: the flag once the block is    *)
(* through                                                                 *)
FlagAfterStop(flag) == IF flag THEN FALSE ELSE flag

(* limiter.check(): Ok consumes a token, Err leaves the bucket alone *)
CheckOk == tokens > 0

(* a check that grants without taking a token *)
CheckedFree == tokens

Checked == IF CheckOk THEN tokens - 1 ELSE tokens

(* what radioloop does when the command called from `site` returns, up to  *)
(* its next write, check or poll; the io::Result is dropped at every call  *)
Resume ==
    CASE site = "l75" ->
            /\ isrx' = TRUE
            /\ extratx' = 0
            /\ txlog' = txlog
            /\ Goes("top")
      [] site = "l93" ->
            /\ isrx' = TRUE
            /\ UNCHANGED <<extratx, txlog>>
            /\ Goes("check98")
      [] site = "l101" ->
            /\ isrx' = FlagAfterStop(isrx)
            /\ txlog' = Append(txlog, next)
            /\ extratx' = extratx
            /\ Enter("l105")
      [] site \in {"l105", "l112"} ->
            /\ UNCHANGED <<isrx, extratx, txlog>>
            /\ Goes("burst")
      [] site = "l116" ->
            /\ isrx' = TRUE
            /\ UNCHANGED <<extratx, txlog>>
            /\ Goes("check120")
      [] site \in {"l126", "l133"} ->
            /\ isrx' = TRUE
            /\ UNCHANGED <<extratx, txlog>>
            /\ Goes("poll")
      [] site = "l143" ->
            /\ isrx' = FlagAfterStop(isrx)
            /\ txlog' = Append(txlog, extratx)
            /\ extratx' = extratx
            /\ Enter("l146")
      [] site = "l146" ->
            /\ extratx' = 0
            /\ UNCHANGED <<isrx, txlog>>
            /\ Goes("poll")
      [] site = "l155" ->
            /\ UNCHANGED <<isrx, extratx, txlog>>
            /\ Goes("top")
      [] OTHER ->
            /\ UNCHANGED <<isrx, extratx, txlog>>
            /\ Goes("done")

(* where a step of a command leaves the thread *)
Land(o) ==
    CASE o.k = "at" ->
            /\ at' = o.v
            /\ UNCHANGED <<pc, site, isrx, extratx, txlog, ops>>
      [] o.k = "panic" ->
            /\ pc' = "dead"
            /\ ops' = <<Op(Fn(site), "panic", isrx)>>
            /\ UNCHANGED <<site, at, isrx, extratx, txlog>>
      [] o.k = "ret" ->
            /\ ops' = <<Op(Fn(site), o.v, isrx)>>
            /\ Resume

(* a harness keeps what its call reads and writes *)
Tracked == cin.op # "none"

(* room on the line channel, and for one more command the radio has not    *)
(* answered; a call on its own is followed on a longer channel than the    *)
(* loop                                                                    *)
LineRoom == Len(lines) < (IF Tracked THEN MaxChan ELSE MaxLines)

OwedRoom == Len(owed) < (IF Tracked THEN MaxChan ELSE MaxOwed)

(* self.ser.writeln(..) inside a command: the write reaches the radio or   *)
(* fails                                                                   *)
CallWrite ==
    /\ pc = "call"
    /\ at \in WriteLabels
    /\ \E ok \in BOOLEAN :
          /\ ok => OwedRoom
          /\ owed' = IF ok THEN Append(owed, Sent(Cmd(Fn(site), at))) ELSE owed
          /\ cout' = IF ~Tracked THEN cout
                     ELSE IF ok THEN [cout EXCEPT !.writes = Append(@, Cmd(Fn(site), at))]
                     ELSE [cout EXCEPT !.lost = @ + 1]
          /\ Land(AfterWrite(at, ok))
    /\ UNCHANGED <<supply, next, sent, lines, rxout, emitted, radiorx, reader, cin>>

(* self.readerlinesrx.recv() inside a command: the oldest line, or         *)
(* Err(RecvError) when the channel is empty and the reader thread is dead; *)
(* while the reader thread lives the call waits for a line                 *)
CallRecv ==
    /\ pc = "call"
    /\ at \in RecvLabels
    /\ lines # <<>> \/ ~reader
    /\ LET got == IF lines # <<>> THEN Head(lines) ELSE Closed
           o == AfterRecv(Fn(site), at, got)
       IN  /\ lines' = IF lines # <<>> THEN Tail(lines) ELSE lines
           /\ rxout' = rxout \o o.out
           /\ cout' = IF Tracked THEN [cout EXCEPT !.reads = Append(@, got)] ELSE cout
           /\ Land(o)
    /\ UNCHANGED <<supply, next, sent, emitted, radiorx, owed, reader, cin>>

(* what LoStik::init may leave on the line channel: nothing, or the answer *)
(* to its last command when the answer to INVALIDCOMMAND came after the    *)
(* drain                                                                   *)
LeftByInit == {<<>>} \cup {<<l>> : l \in {OK, InvalidParam, Version}}

Init ==
    /\ txq = <<>>
    /\ nextid = 0
    /\ tokens = Capacity
    /\ refills = 0
    /\ isrx = FALSE
    /\ extratx = 0
    /\ next = 0
    /\ sent = FALSE
    /\ pc = "start"
    /\ site = ""
    /\ at = ""
    /\ txlog = <<>>
    /\ lines \in LeftByInit
    /\ rxout = <<>>
    /\ emitted = 0
    /\ radiorx = FALSE
    /\ owed = <<>>
    /\ reader = TRUE
    /\ ops = <<>>
    /\ cin = [op |-> "none"]
    /\ cout = [reads |-> <<>>, writes |-> <<>>, lost |-> 0]

(* line 75: radio.rxstart() *)
Start ==
    /\ pc = "start"
    /\ Enter("l75")
    /\ UNCHANGED <<supply, locals, txlog, link, rxout, ops, cin, cout>>

(* lines 87-96: with no deferred frame, poll the outbound queue and, when  *)
(* it is empty, make sure the radio receives                               *)
Top ==
    /\ pc = "top"
    /\ sent' = FALSE
    /\ IF extratx = 0
       THEN /\ next' = IF txq = <<>> THEN 0 ELSE Head(txq)
            /\ txq' = IF txq = <<>> THEN txq ELSE Tail(txq)
            /\ IF txq = <<>> /\ ~isrx THEN Enter("l93") ELSE Goes("check98")
       ELSE /\ next' = 0
            /\ txq' = txq
            /\ Goes("check140")
    /\ UNCHANGED <<nextid, tokens, refills, isrx, extratx, txlog, link, rxout, ops,
                   cin, cout>>

(* lines 98-105: limiter.check().is_ok() && next.is_ok(); the check is     *)
(* made whether or not there is a frame                                    *)
Check98 ==
    /\ pc = "check98"
    /\ tokens' = Checked
    /\ IF CheckOk /\ next # 0
       THEN /\ sent' = TRUE
            /\ IF isrx
               THEN /\ Enter("l101")
                    /\ txlog' = txlog
               ELSE /\ Enter("l105")
                    /\ txlog' = Append(txlog, next)
       ELSE /\ Goes("check120")
            /\ UNCHANGED <<sent, txlog>>
    /\ UNCHANGED <<txq, nextid, refills, isrx, extratx, next, link, rxout, ops,
                   cin, cout>>

(* lines 108-116: while limiter.check().is_ok() { try_recv; tx if Ok },    *)
(* then radio.rxstart()                                                    *)
Burst ==
    /\ pc = "burst"
    /\ tokens' = Checked
    /\ IF CheckOk
       THEN IF txq # <<>>
            THEN /\ txlog' = Append(txlog, Head(txq))
                 /\ txq' = Tail(txq)
                 /\ Enter("l112")
            ELSE UNCHANGED <<txlog, txq, position>>
       ELSE /\ Enter("l116")
            /\ UNCHANGED <<txlog, txq>>
    /\ UNCHANGED <<nextid, refills, locals, link, rxout, ops, cin, cout>>

(* lines 120-136: limiter.check().is_err() && next.is_ok() stores next in  *)
(* extratx; either way the radio is put back to receiving                  *)
Check120 ==
    /\ pc = "check120"
    /\ tokens' = Checked
    /\ extratx' = IF ~CheckOk /\ next # 0 THEN next ELSE extratx
    /\ IF ~isrx
       THEN Enter(IF ~CheckOk /\ next # 0 THEN "l126" ELSE "l133")
       ELSE Goes("poll")
    /\ UNCHANGED <<txq, nextid, refills, isrx, next, sent, txlog, link, rxout, ops,
                   cin, cout>>

(* lines 139-146: a deferred frame waits for the limiter *)
Check140 ==
    /\ pc = "check140"
    /\ tokens' = Checked
    /\ IF CheckOk
       THEN IF isrx
            THEN /\ Enter("l143")
                 /\ txlog' = txlog
            ELSE /\ Enter("l146")
                 /\ txlog' = Append(txlog, extratx)
       ELSE /\ Goes("poll")
            /\ txlog' = txlog
    /\ UNCHANGED <<txq, nextid, refills, locals, link, rxout, ops, cin, cout>>

(* lines 151-159: while receiving, poll the line channel; a line goes to   *)
(* onrx, whose Result is dropped, and the receiver is re-armed             *)
Poll ==
    /\ pc = "poll"
    /\ IF isrx /\ lines # <<>>
       THEN LET o == OnRx(Head(lines))
            IN  /\ lines' = Tail(lines)
                /\ rxout' = rxout \o o.out
                /\ ops' = <<Op("onrx", o.res, isrx)>>
                /\ IF o.res = "panic"
                   THEN /\ pc' = "dead"
                        /\ UNCHANGED <<site, at>>
                   ELSE Enter("l155")
       ELSE /\ Goes("top")
            /\ UNCHANGED <<lines, rxout, ops>>
    /\ UNCHANGED <<supply, locals, txlog, emitted, radiorx, owed, reader, cin, cout>>

(* a producer sends a frame on txsender *)
Enqueue ==
    /\ nextid < MaxFrames
    /\ nextid' = nextid + 1
    /\ txq' = Append(txq, nextid + 1)
    /\ UNCHANGED <<tokens, refills, locals, position, txlog, link, rxout, ops,
                   cin, cout>>

(* time passes: the bucket regains a token *)
Refill ==
    /\ tokens < Capacity
    /\ refills < MaxRefills
    /\ tokens' = tokens + 1
    /\ refills' = refills + 1
    /\ UNCHANGED <<txq, nextid, locals, position, txlog, link, rxout, ops, cin, cout>>

(* the radio sends the next line of its answer to the oldest command it    *)
(* still owes one, and the reader thread puts it on the line channel       *)
RadioAnswer ==
    /\ reader
    /\ owed # <<>>
    /\ LineRoom
    /\ \E a \in Radio(Head(owed)) :
          /\ lines' = Append(lines, a.line)
          /\ owed' = IF a.stage < 0 THEN Tail(owed)
                     ELSE <<[Head(owed) EXCEPT !.stage = a.stage]>> \o Tail(owed)
          /\ radiorx' = Mode(Head(owed).cmd, a.line)
    /\ UNCHANGED <<supply, locals, position, txlog, rxout, emitted, reader, ops,
                   cin, cout>>

(* the packets the radio hears: one byte, two bytes, and a body that is no *)
(* hex                                                                     *)
OnAir == {<<"0", "A">>, <<"A", "0", "0", "1">>, <<"0", "G">>}

(* what reaches the line channel unasked while the radio receives: a       *)
(* packet it has heard, such a line cut off after its prefix, or radio_err *)
(* when its watchdog ends the reception                                    *)
AsyncLines ==
    {[kind |-> RxPrefix, rest |-> <<" ">> \o b] : b \in OnAir} \cup {Truncated, RadioErr}

(* the radio, in receive mode, hears a packet or times out: it reports it  *)
(* on the serial line and leaves receive mode                              *)
RadioNotify ==
    /\ reader
    /\ radiorx
    /\ emitted < MaxRx
    /\ LineRoom
    /\ \E n \in AsyncLines : lines' = Append(lines, n)
    /\ emitted' = emitted + 1
    /\ radiorx' = FALSE
    /\ UNCHANGED <<supply, locals, position, txlog, rxout, owed, reader, ops,
                   cin, cout>>

(* serialloop panics on a read error (line 45): its end of the line        *)
(* channel is dropped                                                      *)
ReaderPanics ==
    /\ reader
    /\ reader' = FALSE
    /\ UNCHANGED <<supply, locals, position, txlog, lines, rxout, emitted, radiorx,
                   owed, ops, cin, cout>>

Next ==
    \/ Start
    \/ Top
    \/ Check98
    \/ Burst
    \/ Check120
    \/ Check140
    \/ Poll
    \/ CallWrite
    \/ CallRecv
    \/ Enqueue
    \/ Refill
    \/ RadioAnswer
    \/ RadioNotify
    \/ ReaderPanics

Spec == Init /\ [][Next]_vars

-----------------------------------------------------------------------------
(* The command helpers on their own: a call of rxstart, rxstop, tx or      *)
(* blueledon on any pending channel content, with the radio receiving or   *)
(* not, while the radio, the reader thread and the producers run.          *)

RECURSIVE SeqsUpTo(_, _)
SeqsUpTo(S, n) ==
    IF n = 0 THEN {<<>>}
    ELSE LET shorter == SeqsUpTo(S, n - 1)
         IN shorter \cup {Append(q, c) : q \in {t \in shorter : Len(t) = n - 1}, c \in S}

LineSet == {OK, RadioErr, Busy, TxOk, Truncated} \cup Notifications

InitCmd ==
    /\ txq = <<>>
    /\ nextid = 0
    /\ tokens = Capacity
    /\ refills = 0
    /\ isrx = FALSE
    /\ extratx = 0
    /\ next = 0
    /\ sent = FALSE
    /\ cin \in [op : {"rxstart", "rxstop", "tx", "led"},
                ch : SeqsUpTo(LineSet, MaxChan), rrx : BOOLEAN]
    /\ pc = "call"
    /\ site = cin.op
    /\ at = First(cin.op)
    /\ txlog = <<>>
    /\ lines = cin.ch
    /\ rxout = <<>>
    /\ emitted = 0
    /\ radiorx = cin.rrx
    /\ owed = <<>>
    /\ reader = TRUE
    /\ ops = <<>>
    /\ cout = [reads |-> <<>>, writes |-> <<>>, lost |-> 0]

NextCmd ==
    \/ CallWrite
    \/ CallRecv
    \/ RadioAnswer
    \/ RadioNotify
    \/ ReaderPanics
    \/ Enqueue

SpecCmd == InitCmd /\ [][NextCmd]_vars

-----------------------------------------------------------------------------
(* Properties *)

Count(f, q) == Cardinality({i \in 1..Len(q) : q[i] = f})

Range(q) == {q[i] : i \in 1..Len(q)}

IsCommand(o) == o.op \in {"rxstart", "rxstop", "tx"}

(* C1: a frame held back by the limiter is passed to tx exactly once and   *)
(* before every frame enqueued after it: when the loop hands its deferred  *)
(* frame to tx, that is the frame's only transmission and no younger frame *)
(* has been transmitted yet; and a deferred frame leaves extratx only when *)
(* that tx returns.                                                        *)
C1_DeferredOnceInOrder ==
    [][/\ (site' = "l146" /\ site # "l146") =>
             /\ txlog' = Append(txlog, extratx)
             /\ Count(extratx, txlog') = 1
             /\ \A i \in 1..Len(txlog') : txlog'[i] <= extratx
       /\ (extratx # 0 /\ extratx' # extratx) =>
             /\ extratx' = 0
             /\ site = "l146"]_vars

(* C2: the frames passed to tx never go back in enqueue order: no frame is *)
(* transmitted after a frame that was enqueued later than it.              *)
C2_TransmitInEnqueueOrder ==
    \A i, j \in 1..Len(txlog) : i < j => txlog[i] <= txlog[j]

(* C3: while the loop is inside a tx its flag is at Transmitting           *)
(* (isrx = FALSE), and a step-3 poll takes a line off the inbound line     *)
(* channel only with the flag at Receiving (isrx = TRUE).                  *)
C3_Arbitration ==
    /\ []((pc = "call" /\ Fn(site) = "tx") => ~isrx)
    /\ [][(pc = "poll" /\ pc' # pc /\ lines' # lines) => isrx]_vars

(* the loop stopped the receiver, lowered its flag and is about to write   *)
(* the transmit command                                                    *)
C3_Witness ==
    /\ pc = "call"
    /\ site = "l105"
    /\ at = "w"
    /\ ops = <<Op("rxstop", "ok", TRUE)>>
    /\ ~isrx

(* C4: every step that passes a frame to tx passes exactly one and enters  *)
(* tx with it, and the transmissions never outnumber the successful        *)
(* checks: at most Capacity of them plus one per token that time has put   *)
(* back.                                                                   *)
C4_RateLimited ==
    /\ [](Len(txlog) + tokens <= Capacity + refills)
    /\ [][txlog' # txlog =>
             /\ txlog' = Append(txlog, txlog'[Len(txlog')])
             /\ pc' = "call"
             /\ Fn(site') = "tx"
             /\ at' = "onw"]_vars

(* the bucket is empty and a frame that was never transmitted waits *)
C4_Witness ==
    /\ tokens = 0
    /\ Len(txlog) > 0
    /\ extratx # 0
    /\ Count(extratx, txlog) = 0
    /\ pc = "poll"

(* C5: when step 2 ends after the queue gave a frame that the limiter      *)
(* refused (the frame was not transmitted), the frame is the deferred      *)
(* frame and the flag is at Receiving.                                     *)
C5_RateLimitedIsDeferred ==
    (pc = "poll" /\ next # 0 /\ ~sent) => (extratx = next /\ isrx)

(* C6: inside a burst a successful check hands the next queued frame to tx *)
(* (line 112); the burst is left for the start-receive of line 116 once    *)
(* the check fails or the queue is found empty, and when that              *)
(* start-receive returns the flag is at Receiving.                         *)
C6_BurstEnds ==
    [][/\ (pc = "burst" /\ (tokens' < tokens \/ pc' # pc)) =>
             IF tokens > 0 /\ txq # <<>>
             THEN /\ txlog' = Append(txlog, Head(txq))
                  /\ pc' = "call"
                  /\ site' = "l112"
             ELSE /\ pc' = "call"
                  /\ site' = "l116"
                  /\ txlog' = txlog
       /\ (site = "l116" /\ site' # site) => (isrx' /\ pc' = "check120")]_vars

(* the bytes a notification carries, digit by digit *)
UpperDigits ==
    <<"0", "1", "2", "3", "4", "5", "6", "7", "8", "9", "A", "B", "C", "D", "E", "F">>

Nibble(c) == (CHOOSE n \in 1..16 : UpperDigits[n] = c) - 1

Carried(msg) ==
    LET body == IF msg.rest = <<>> THEN <<>> ELSE Tail(msg.rest)
        wellformed ==
            /\ msg.rest # <<>>
            /\ Len(body) % 2 = 0
            /\ \A i \in 1..Len(body) : \E n \in 1..16 : UpperDigits[n] = body[i]
    IN  IF msg.kind = "radio_rx " /\ wellformed
        THEN <<[i \in 1..(Len(body) \div 2) |->
                   16 * Nibble(body[2 * i - 1]) + Nibble(body[2 * i])]>>
        ELSE <<>>

(* C7: a step-3 poll made with the flag at Receiving that finds a line     *)
(* takes the oldest line off the channel, appends the bytes of a           *)
(* well-formed radio_rx notification to the egress channel (nothing for    *)
(* any other line) and calls start-receive (line 155), after which the     *)
(* loop is back at its top; any other step-3 poll delivers nothing and     *)
(* goes to the top.                                                        *)
C7_ReceivePath ==
    [][/\ (pc = "poll" /\ pc' # pc) =>
             IF isrx /\ lines # <<>>
             THEN /\ rxout' = rxout \o Carried(Head(lines))
                  /\ lines' = Tail(lines)
                  /\ pc' = "call"
                  /\ site' = "l155"
                  /\ at' = "w"
             ELSE /\ rxout' = rxout
                  /\ lines' = lines
                  /\ pc' = "top"
       /\ (site = "l155" /\ pc' # pc) => pc' \in {"top", "dead"}]_vars

(* what a harness call returned *)
Result == ops[1].res

(* C8: when the first line rxstop reads is a notification, the packet is   *)
(* delivered through onrx, one further line is read as the acknowledgement *)
(* and the indicator is switched off, whatever the notification carries;   *)
(* otherwise the first line is the acknowledgement and only the            *)
(* indicator's own answer is read after it.                                *)
C8_StopReceiveRace ==
    (cin.op = "rxstop" /\ pc = "done" /\ cout.lost = 0) =>
        IF IsNotification(cout.reads[1])
        THEN /\ rxout = Carried(cout.reads[1])
             /\ Len(cout.reads) = 3
             /\ cout.writes = <<"radio rxstop", "sys set pindig GPIO11 0">>
        ELSE /\ rxout = <<>>
             /\ Len(cout.reads) = 2
             /\ cout.writes = <<"radio rxstop", "sys set pindig GPIO11 0">>

(* reads made before the command itself is written: tx lights its          *)
(* indicator first                                                         *)
Before == IF cin.op = "tx" THEN 1 ELSE 0

Command == IF cin.op = "tx" THEN "radio tx" ELSE "radio rx 0"

(* the command reached the radio *)
CmdWritten == Command \in Range(cout.writes)

(* the first line read after the command was radio_err *)
Skipped == cout.reads[Before + 1] = RadioErr

(* the line the call held when it asserted *)
Held == IF Skipped THEN cout.reads[Before + 2] ELSE cout.reads[Before + 1]

Responses == IF Skipped THEN 2 ELSE 1

(* C9: rxstart and tx, once the command is written, read one line, read    *)
(* one more if that line is radio_err, and succeed only when the line then *)
(* held is ok; on a mismatch they return an error having read and written  *)
(* nothing further; on a match rxstart goes on to the indicator and tx to  *)
(* the post-transmit line and to switching its indicator off.              *)
C9_AckValidation ==
    (cin.op \in {"rxstart", "tx"} /\ pc = "done" /\ CmdWritten) =>
        /\ Result = "err" <=> Held # OK
        /\ Result = "err" =>
              /\ Len(cout.reads) = Before + Responses
              /\ cout.writes[Len(cout.writes)] = Command
        /\ (Result = "ok" /\ cin.op = "rxstart") =>
              /\ Len(cout.reads) = Responses + 1
              /\ cout.writes[1] = "radio rx 0"
              /\ cout.lost = 0 =>
                    cout.writes = <<"radio rx 0", "sys set pindig GPIO11 1">>
        /\ (Result = "ok" /\ cin.op = "tx") =>
              /\ Len(cout.reads) = 1 + Responses + 2
              /\ cout.lost = 0 =>
                    cout.writes = <<"sys set pindig GPIO10 1", "radio tx",
                                    "sys set pindig GPIO10 0">>

(* tx skipped a radio_err, was acknowledged and read its post-transmit line *)
C9_Witness ==
    /\ cin.op = "tx"
    /\ cin.ch = <<>>
    /\ pc = "done"
    /\ Result = "ok"
    /\ cout.reads = <<OK, RadioErr, OK, TxOk, OK>>

(* C10: once a command called by the loop has returned an error the loop   *)
(* is stopped: its position and its flag never change again and it issues  *)
(* nothing further.                                                        *)
C10_ErrorsAreFatal ==
    [][(ops # <<>> /\ IsCommand(ops[1]) /\ ops[1].res = "err") =>
          (pc' = pc /\ site' = site /\ at' = at /\ isrx' = isrx /\ txlog' = txlog)]_vars

(* C11: the flag follows the radio's acknowledgements: it is raised to     *)
(* Receiving only by a step in which start-receive returns acknowledged    *)
(* with ok, and lowered to Transmitting only by a step in which the        *)
(* stop-receive round-trip completes.                                      *)
C11_FlagFollowsRadio ==
    [][/\ (~isrx /\ isrx') => (ops'[1].op = "rxstart" /\ ops'[1].res = "ok")
       /\ (isrx /\ ~isrx') => (ops'[1].op = "rxstop" /\ ops'[1].res = "ok")]_vars

(* C17: no frame is passed to tx twice, and the deferred frame is never a  *)
(* frame that has already been transmitted.                                *)
C17_NoDuplicateTransmission ==
    /\ \A f \in 1..nextid : Count(f, txlog) <= 1
    /\ extratx # 0 => extratx \notin Range(txlog)

(* C18: no frame is lost between dequeue and transmit: every frame taken   *)
(* from the outbound queue has been passed to tx, is the deferred frame,   *)
(* or is the frame the current iteration is still deciding about or is     *)
(* stopping the receiver for, so that every enqueued frame can still reach *)
(* tx.                                                                     *)
C18_NoFrameLost ==
    \A f \in 1..nextid :
        \/ f \in Range(txq)
        \/ f \in Range(txlog)
        \/ f = extratx
        \/ f = next /\ (pc \in {"check98", "check120"} \/ site = "l101")

(* C20: the checks of an iteration that has no deferred frame and found    *)
(* the outbound queue empty take no token from the bucket.                 *)
C20_IdleKeepsTokens ==
    [][(pc \in {"check98", "check120"} /\ extratx = 0 /\ next = 0) =>
          tokens' >= tokens]_vars

(* C19: when the loop makes its step-3 poll, every line still on the       *)
(* inbound line channel is one the radio sent of its own accord (a packet  *)
(* notification or a watchdog radio_err); no acknowledgement of a command  *)
(* the loop has written is left there.                                     *)
C19_ChannelInSync ==
    (pc = "poll" /\ isrx) => \A i \in 1..Len(lines) : lines[i] \in AsyncLines

-----------------------------------------------------------------------------
(* LoStik::init and LoStik::oninit, on their own: a call of init with any  *)
(* init file against any responder, one step per writeln, for the settle   *)
(* delay and per recv().                                                   *)

MaxCmds == 3

(* the built-in command list *)
DefaultCmds ==
    <<"sys get ver", "mac reset", "mac pause", "radio get mod", "radio get freq",
      "radio get pwr", "radio get sf", "radio get bw", "radio get cr",
      "radio get wdt", "radio set pwr 22", "radio set sf sf12",
      "radio set bw 125", "radio set cr 4/5", "radio set wdt 60000">>

(* lines of an init file: a command or an empty line *)
CmdLines == {"mac pause", ""}

(* the initfile argument as init finds it: None (the built-in list), a     *)
(* path fs::File::open refuses, a file whose lines cannot be read (a       *)
(* directory, bytes that are no UTF-8), or a file of lines                 *)
Files ==
    {[kind |-> "none", cmds |-> DefaultCmds],
     [kind |-> "noopen", cmds |-> <<>>],
     [kind |-> "unreadable", cmds |-> <<>>]}
    \cup [kind : {"lines"}, cmds : SeqsUpTo(CmdLines, MaxCmds)]

(* oninit accepting whatever the radio answers *)
OnInitDeaf(line) == FALSE

(* LoStik::oninit, after its recv: is the line the bad-parameter token *)
OnInit(line) == line = InvalidParam

(* the next line of the list that is not empty, from position k on; 0 when *)
(* the list is through                                                     *)
NextLine(cmds, k) ==
    IF \E j \in k..Len(cmds) : cmds[j] # ""
    THEN CHOOSE j \in k..Len(cmds) : cmds[j] # "" /\ \A i \in k..(j - 1) : cmds[i] = ""
    ELSE 0

InitInit ==
    /\ txq = <<>>
    /\ nextid = 0
    /\ tokens = Capacity
    /\ refills = 0
    /\ isrx = FALSE
    /\ extratx = 0
    /\ next = 0
    /\ sent = FALSE
    /\ cin \in [op : {"init"}, ch : SeqsUpTo({OK, RadioErr}, MaxChan), file : Files]
    /\ pc = "call"
    /\ site = "init"
    /\ at = "w0"
    /\ txlog = <<>>
    /\ lines = cin.ch
    /\ rxout = <<>>
    /\ emitted = 0
    /\ radiorx = FALSE
    /\ owed = <<>>
    /\ reader = TRUE
    /\ ops = <<>>
    /\ cout = [writes |-> <<>>, nreads |-> 0, last |-> Closed, bad |-> FALSE,
               lost |-> 0, k |-> 0]

(* init returns r, or panics *)
InitEnds(r) ==
    /\ pc' = IF r = "panic" THEN "dead" ELSE "done"
    /\ ops' = <<Op("init", r, FALSE)>>
    /\ UNCHANGED <<site, at>>

(* init goes on with the command at position k of the list, or returns Ok  *)
(* when the list is through                                                *)
InitGoesOn(k) ==
    IF k = 0 THEN InitEnds("ok")
    ELSE /\ at' = "cw"
         /\ UNCHANGED <<pc, site, ops>>

(* line 196: self.ser.writeln("INVALIDCOMMAND")? *)
InitWrite0 ==
    /\ pc = "call"
    /\ site = "init"
    /\ at = "w0"
    /\ \E ok \in BOOLEAN :
          /\ ok => OwedRoom
          /\ IF ok
             THEN /\ owed' = Append(owed, Sent("INVALIDCOMMAND"))
                  /\ cout' = [cout EXCEPT !.writes = Append(@, "INVALIDCOMMAND")]
                  /\ at' = "sleep"
                  /\ UNCHANGED <<pc, site, ops>>
             ELSE /\ cout' = [cout EXCEPT !.lost = @ + 1]
                  /\ owed' = owed
                  /\ InitEnds("err")
    /\ UNCHANGED <<supply, locals, txlog, lines, rxout, emitted, radiorx, reader, cin>>

(* lines 199-229: the settle delay is over; everything pending is dropped, *)
(* then the command list is read: File::open(file)? returns the error,     *)
(* l.unwrap() panics on a line that cannot be read                         *)
InitSettle ==
    /\ pc = "call"
    /\ site = "init"
    /\ at = "sleep"
    /\ lines' = <<>>
    /\ LET k == NextLine(cin.file.cmds, 1)
       IN  /\ cout' = [cout EXCEPT !.k = k]
           /\ CASE cin.file.kind = "noopen" -> InitEnds("err")
                [] cin.file.kind = "unreadable" -> InitEnds("panic")
                [] OTHER -> InitGoesOn(k)
    /\ UNCHANGED <<supply, locals, txlog, rxout, emitted, radiorx, owed, reader, cin>>

(* line 233: self.ser.writeln(line)? *)
InitWrite ==
    /\ pc = "call"
    /\ site = "init"
    /\ at = "cw"
    /\ \E ok \in BOOLEAN :
          /\ ok => OwedRoom
          /\ IF ok
             THEN /\ owed' = Append(owed, Sent(cin.file.cmds[cout.k]))
                  /\ cout' = [cout EXCEPT !.writes = Append(@, cin.file.cmds[cout.k])]
                  /\ at' = "cr"
                  /\ UNCHANGED <<pc, site, ops>>
             ELSE /\ cout' = [cout EXCEPT !.lost = @ + 1]
                  /\ owed' = owed
                  /\ InitEnds("err")
    /\ UNCHANGED <<supply, locals, txlog, lines, rxout, emitted, radiorx, reader, cin>>

(* lines 234 and 242-247: oninit()?, whose recv().unwrap() panics on a     *)
(* disconnected channel                                                    *)
InitRecv ==
    /\ pc = "call"
    /\ site = "init"
    /\ at = "cr"
    /\ lines # <<>> \/ ~reader
    /\ LET got == IF lines # <<>> THEN Head(lines) ELSE Closed
           k == NextLine(cin.file.cmds, cout.k + 1)
       IN  /\ lines' = IF lines # <<>> THEN Tail(lines) ELSE lines
           /\ cout' = [cout EXCEPT !.nreads = @ + 1,
                                   !.last = got,
                                   !.bad = @ \/ got = InvalidParam,
                                   !.k = IF got = Closed \/ OnInit(got) THEN @ ELSE k]
           /\ IF got = Closed THEN InitEnds("panic")
              ELSE IF OnInit(got) THEN InitEnds("cfgerr")
              ELSE InitGoesOn(k)
    /\ UNCHANGED <<supply, locals, txlog, rxout, emitted, radiorx, owed, reader, cin>>

NextInit ==
    \/ InitWrite0
    \/ InitSettle
    \/ InitWrite
    \/ InitRecv
    \/ RadioAnswer
    \/ ReaderPanics

SpecInit == InitInit /\ [][NextInit]_vars

(* the commands init is to write *)
ToWrite == SelectSeq(cin.file.cmds, LAMBDA c : c # "")

(* the commands init has written after INVALIDCOMMAND *)
Written == Len(cout.writes) - 1

(* C12: init writes INVALIDCOMMAND and drops what is pending when the      *)
(* settle delay ends; it then writes the command lines in order and reads  *)
(* exactly one line after each; it returns Ok when no line read is         *)
(* invalid_param (so against a responder that says ok to everything), and  *)
(* at the first invalid_param it returns the configuration error having    *)
(* written nothing after that command.                                     *)
C12_Initialization ==
    /\ []((cin.op = "init" /\ cout.writes # <<>>) =>
            /\ cout.writes = <<"INVALIDCOMMAND">> \o SubSeq(ToWrite, 1, Written)
            /\ cout.nreads = IF pc = "call" /\ at = "cr" THEN Written - 1 ELSE Written
            /\ cout.bad => (pc = "done" /\ Result = "cfgerr" /\ cout.last = InvalidParam)
            /\ (pc = "done" /\ Result = "ok") => Written = Len(ToWrite)
            /\ (pc = "done" /\ cout.lost = 0 /\ cin.file.kind \in {"none", "lines"}
                  /\ ~cout.bad) => Result = "ok")
    /\ [][(cin.op = "init" /\ at = "sleep" /\ at' # at) => lines' = <<>>]_vars

(* the built-in list is refused at "radio set pwr 22" *)
C12_Witness ==
    /\ cin.op = "init"
    /\ cin.file.kind = "none"
    /\ cin.ch = <<RadioErr>>
    /\ pc = "done"
    /\ Result = "cfgerr"
    /\ Len(cout.writes) = 12
    /\ cout.writes[12] = "radio set pwr 22"
    /\ cout.nreads = 11


-----------------------------------------------------------------------------
(* serialloop, on its own: the reader thread against any sequence of       *)
(* results of SerialIO::readln, and a consumer taking lines off the        *)
(* channel until it lets go of its receiving end.                          *)

MaxWire == 3

(* what one readln returns: Ok(Some(l)), Ok(None) or Err *)
ReadLn == [t : {"line"}, l : {OK, TxOk}] \cup [t : {"eof", "ioerr"}, l : {Line("")}]

(* a channel handing out the newest line first *)
PublishFront(ch, l, open) ==
    IF open THEN [ok |-> TRUE, ch |-> <<l>> \o ch] ELSE [ok |-> FALSE, ch |-> ch]

(* rxsender.send(l) on the unbounded channel: the line joins the channel,  *)
(* or, once every receiver has been dropped, Err and nothing is sent       *)
Publish(ch, l, open) ==
    IF open THEN [ok |-> TRUE, ch |-> Append(ch, l)] ELSE [ok |-> FALSE, ch |-> ch]

InitReader ==
    /\ txq = <<>>
    /\ nextid = 0
    /\ tokens = Capacity
    /\ refills = 0
    /\ isrx = FALSE
    /\ extratx = 0
    /\ next = 0
    /\ sent = FALSE
    /\ pc = "start"
    /\ site = ""
    /\ at = ""
    /\ txlog = <<>>
    /\ lines = <<>>
    /\ rxout = <<>>
    /\ emitted = 0
    /\ radiorx = FALSE
    /\ owed = <<>>
    /\ reader = TRUE
    /\ ops = <<>>
    /\ cin \in [op : {"serialloop"}, wire : SeqsUpTo(ReadLn, MaxWire)]
    /\ cout = [res |-> "running", pos |-> 0, got |-> <<>>, rcv |-> TRUE, held |-> 0,
               end |-> FALSE]

(* one turn of the loop: readln().expect, then send(l).expect or, on an    *)
(* end of stream, continue; either expect ends the thread, and with it the *)
(* sending end of the channel                                              *)
SerialLoop ==
    /\ cin.op = "serialloop"
    /\ cout.res = "running"
    /\ cout.pos < Len(cin.wire)
    /\ LET r == cin.wire[cout.pos + 1]
           s == Publish(lines, r.l, cout.rcv)
           died == r.t = "ioerr" \/ (r.t = "line" /\ ~s.ok)
       IN  /\ lines' = IF r.t = "line" THEN s.ch ELSE lines
           /\ cout' = [cout EXCEPT !.pos = @ + 1,
                                   !.res = IF died THEN "panicked" ELSE @]
           /\ reader' = ~died
    /\ UNCHANGED <<supply, locals, position, txlog, rxout, emitted, radiorx, owed,
                   ops, cin>>

(* the driver's recv on the other end of the channel: the oldest line; on  *)
(* an empty channel it waits while the reader lives and gets               *)
(* Err(RecvError) once the reader is gone                                  *)
Consume ==
    /\ cin.op = "serialloop"
    /\ cout.rcv
    /\ ~cout.end
    /\ lines # <<>> \/ ~reader
    /\ IF lines # <<>>
       THEN /\ cout' = [cout EXCEPT !.got = Append(@, Head(lines))]
            /\ lines' = Tail(lines)
       ELSE /\ cout' = [cout EXCEPT !.end = TRUE]
            /\ lines' = lines
    /\ UNCHANGED <<supply, locals, position, txlog, rxout, emitted, radiorx, owed,
                   reader, ops, cin>>

(* the last LoStik holding readerlinesrx is dropped; what is still on the  *)
(* channel is never received                                               *)
DropReceiver ==
    /\ cin.op = "serialloop"
    /\ cout.rcv
    /\ cout' = [cout EXCEPT !.rcv = FALSE, !.held = cout.pos]
    /\ UNCHANGED <<supply, locals, position, txlog, lines, rxout, emitted, radiorx,
                   owed, reader, ops, cin>>

NextReader == SerialLoop \/ Consume \/ DropReceiver

SpecReader == InitReader /\ [][NextReader]_vars

(* the lines among the first n results of readln, in the order read *)
RECURSIVE LinesRead(_, _)
LinesRead(wire, n) ==
    IF n = 0 THEN <<>>
    ELSE LinesRead(wire, n - 1) \o (IF wire[n].t = "line" THEN <<wire[n].l>> ELSE <<>>)

(* C13: what the consumer has taken followed by what is still on the       *)
(* channel is exactly the lines read so far, each once and in the order    *)
(* read; an end of stream adds nothing and leaves the reader running.      *)
C13_LineReader ==
    cin.op = "serialloop" =>
        /\ cout.got \o lines = LinesRead(cin.wire, cout.pos)
        /\ (cout.pos > 0 /\ cin.wire[cout.pos].t = "eof") => cout.res = "running"

(* C13, amended: the same of the lines read while a receiving end of the   *)
(* channel existed; a line read after the last receiver was dropped is not *)
(* published and ends the reader, as does a read error and nothing else;   *)
(* the consumer's recv fails only once the reader has ended and every line *)
(* it published has been taken.                                            *)
C13_LineReaderWhileReceived ==
    cin.op = "serialloop" =>
        /\ cout.got \o lines =
               LinesRead(cin.wire, IF cout.rcv THEN cout.pos ELSE cout.held)
        /\ (cout.pos > 0 /\ cin.wire[cout.pos].t = "eof") => cout.res = "running"
        /\ cout.res = "panicked" <=>
               /\ cout.pos > 0
               /\ \/ cin.wire[cout.pos].t = "ioerr"
                  \/ cin.wire[cout.pos].t = "line" /\ ~cout.rcv /\ cout.pos > cout.held
        /\ cout.end => (cout.res = "panicked" /\ lines = <<>>)

(* a line, an end of stream and another line were read and both lines      *)
(* taken in that order, the receiving end still held                       *)
C13_Witness ==
    /\ cin.op = "serialloop"
    /\ cout.rcv
    /\ cout.pos = 3
    /\ cin.wire[1].t = "line"
    /\ cin.wire[2].t = "eof"
    /\ cin.wire[3].t = "line"
    /\ cin.wire[1].l # cin.wire[3].l
    /\ cout.got = <<cin.wire[1].l, cin.wire[3].l>>

-----------------------------------------------------------------------------
(* BroadcastMessage::to_frame and BroadcastMessage::from_frame.  An        *)
(* Option is a sequence of at most one element; a u8 is a number below     *)
(* 256; an Ipv4Addr is the record of its four octets.                      *)

MaxPayload == 6
MaxRoute == 2

None == <<>>
Some(x) == <<x>>

(* stack::util::parse_bool: 0 and 1 are the encodings of a boolean *)
parse_bool(b) ==
    IF b \in {0, 1} THEN [ok |-> TRUE, val |-> b = 1]
    ELSE [ok |-> FALSE, val |-> FALSE]

(* stack::util::parse_byte *)
parse_byte(flag) == IF flag THEN 1 ELSE 0

(* stack::util::parse_ipv4 of a slice of four octets *)
parse_ipv4(o) == [a |-> o[1], b |-> o[2], c |-> o[3], d |-> o[4]]

(* Ipv4Addr::octets *)
Octets(ip) == <<ip.a, ip.b, ip.c, ip.d>>

(* Frame::new, Frame::header and Frame::payload *)
FrameNew(version, frameid, msgtype, sender, routeoffset, route, data) ==
    [version |-> version, frameid |-> frameid, msgtype |-> msgtype,
     sender |-> sender, routeoffset |-> routeoffset, route |-> route,
     payload |-> data]

FrameHeader(f) ==
    [frameid |-> f.frameid, msgtype |-> f.msgtype, sender |-> f.sender,
     route |-> f.route]

FramePayload(f) == f.payload

Decoded(res, f, m) == [res |-> res, frame |-> Some(f), msg |-> m]

(* from_frame: data[0], parse_bool(..).unwrap(), data[1] and &data[2..6]   *)
(* each abort the thread when the byte is missing or not a boolean         *)
from_frame(f) ==
    LET data == FramePayload(f)
        isgateway == parse_bool(data[1])
        offset == data[2]
        msg(ip) == [header |-> Some(FrameHeader(f)), isgateway |-> isgateway.val,
                    ipOffset |-> offset, ipaddr |-> ip]
    IN  IF Len(data) < 1 THEN Decoded("panic", f, None)
        ELSE IF ~isgateway.ok THEN Decoded("panic", f, None)
        ELSE IF Len(data) < 2 THEN Decoded("panic", f, None)
        ELSE IF offset > 0
             THEN IF Len(data) < 6 THEN Decoded("panic", f, None)
                  ELSE Decoded("ok", f, Some(msg(Some(parse_ipv4(SubSeq(data, 3, 6))))))
             ELSE Decoded("ok", f, Some(msg(None)))

(* to_frame never announcing the address *)
to_frame_bare(msg, frameid, sender, route) ==
    FrameNew(0, frameid, "Broadcast", sender, Len(route) % 256, route,
             <<parse_byte(msg.isgateway), 0>>)

to_frame(msg, frameid, sender, route) ==
    LET data == <<parse_byte(msg.isgateway)>> \o
                   (IF msg.ipaddr # None
                    THEN <<4>> \o Octets(msg.ipaddr[1])
                    ELSE <<0>>)
    IN  FrameNew(0, frameid, "Broadcast", sender, Len(route) % 256, route, data)

PayloadBytes == {0, 1, 4, 255}

Addrs == {parse_ipv4(<<172, 16, 0, 5>>), parse_ipv4(<<0, 0, 0, 0>>),
          parse_ipv4(<<255, 255, 255, 255>>)}

(* values of the struct, its ipOffset field free of its ipaddr field *)
Messages ==
    [header : {None, Some([frameid |-> 9, msgtype |-> "Broadcast", sender |-> 9,
                           route |-> <<9>>])},
     isgateway : BOOLEAN, ipOffset : {0, 4, 7},
     ipaddr : {None} \cup {Some(ip) : ip \in Addrs}]

EncodeCalls ==
    [op : {"to_frame"}, msg : Messages, frameid : {1, 255}, sender : {0, 5},
     route : SeqsUpTo({5, 9}, MaxRoute)]

DecodeCalls ==
    [op : {"from_frame"},
     frame : {FrameNew(0, 1, "Broadcast", 5, 1, <<5>>, data) :
                 data \in SeqsUpTo(PayloadBytes, MaxPayload)}]

InitMsg ==
    /\ txq = <<>>
    /\ nextid = 0
    /\ tokens = Capacity
    /\ refills = 0
    /\ isrx = FALSE
    /\ extratx = 0
    /\ next = 0
    /\ sent = FALSE
    /\ pc = "start"
    /\ site = ""
    /\ at = ""
    /\ txlog = <<>>
    /\ lines = <<>>
    /\ rxout = <<>>
    /\ emitted = 0
    /\ radiorx = FALSE
    /\ owed = <<>>
    /\ reader = TRUE
    /\ ops = <<>>
    /\ cin \in EncodeCalls \cup DecodeCalls
    /\ cout = [res |-> "none", frame |-> None, msg |-> None]

(* msg.to_frame(frameid, sender, route) *)
MsgToFrame ==
    /\ cin.op = "to_frame"
    /\ cout.res = "none"
    /\ cout' = [res |-> "frame",
                frame |-> Some(to_frame(cin.msg, cin.frameid, cin.sender, cin.route)),
                msg |-> None]
    /\ UNCHANGED <<loopvars, cin>>

(* BroadcastMessage::from_frame of a received frame, or of the frame       *)
(* to_frame built                                                          *)
MsgFromFrame ==
    /\ \/ cin.op = "from_frame" /\ cout.res = "none" /\ cout' = from_frame(cin.frame)
       \/ cin.op = "to_frame" /\ cout.res = "frame" /\ cout' = from_frame(cout.frame[1])
    /\ UNCHANGED <<loopvars, cin>>

NextMsg == MsgToFrame \/ MsgFromFrame

SpecMsg == InitMsg /\ [][NextMsg]_vars


(* the payload the layout prescribes for a value *)
Layout(m) ==
    <<IF m.isgateway THEN 1 ELSE 0>> \o
        (IF m.ipaddr = <<>> THEN <<0>>
         ELSE <<4, m.ipaddr[1].a, m.ipaddr[1].b, m.ipaddr[1].c, m.ipaddr[1].d>>)

(* C14: to_frame of any value gives the payload [flag, 4, o1, o2, o3, o4]  *)
(* or [flag, 0] and a frame of the given sender; from_frame of that frame  *)
(* succeeds with the same gateway flag, the same address or absence of     *)
(* one, and a header carrying that sender.                                 *)
C14_BroadcastRoundTrip ==
    cin.op = "to_frame" =>
        /\ cout.res # "none" =>
              /\ cout.frame[1].payload = Layout(cin.msg)
              /\ cout.frame[1].sender = cin.sender
        /\ cout.res \notin {"none", "frame"} =>
              /\ cout.res = "ok"
              /\ cout.msg[1].isgateway = cin.msg.isgateway
              /\ cout.msg[1].ipaddr = cin.msg.ipaddr
              /\ cout.msg[1].header # <<>>
              /\ cout.msg[1].header[1].sender = cin.sender

(* 172.16.0.5, not a gateway, sent by node 5 over route [5], decoded again *)
C14_Witness ==
    /\ cin.op = "to_frame"
    /\ cin.msg.isgateway = FALSE
    /\ cin.msg.ipaddr = <<[a |-> 172, b |-> 16, c |-> 0, d |-> 5]>>
    /\ cin.sender = 5
    /\ cin.route = <<5>>
    /\ cout.res = "ok"
    /\ cout.frame[1].payload = <<0, 4, 172, 16, 0, 5>>
    /\ cout.msg[1].ipaddr = cin.msg.ipaddr

(* C15: in every value from_frame returns, and in every payload to_frame   *)
(* writes, the offset is 0 exactly when there is no address and 4 exactly  *)
(* when there is one.                                                      *)
C15_OffsetInvariant ==
    /\ cout.msg # <<>> =>
          /\ cout.msg[1].ipOffset = 0 <=> cout.msg[1].ipaddr = <<>>
          /\ cout.msg[1].ipOffset = 4 <=> cout.msg[1].ipaddr # <<>>
    /\ (cin.op = "to_frame" /\ cout.frame # <<>>) =>
          /\ cout.frame[1].payload[2] = 0 <=> cin.msg.ipaddr = <<>>
          /\ cout.frame[1].payload[2] = 4 <=> cin.msg.ipaddr # <<>>

(* C16: from_frame returns; when byte 0 of the payload is no boolean it    *)
(* returns a parse error.                                                  *)
C16_DecodeErrors ==
    /\ cout.res # "panic"
    /\ (cin.op = "from_frame" /\ cout.res # "none"
          /\ Len(cin.frame.payload) > 0 /\ cin.frame.payload[1] \notin {0, 1}) =>
            cout.res = "err"

====
